---- MODULE Spec2Model ----
(***************************************************************************)
(* Compressly: the size-targeting search of compressFileOptimized and the  *)
(* runCompress handler that drives it (src/src/App.jsx).                   *)
(*                                                                         *)
(* Quality values are fixed-point numbers in units of 1/QS, so that the    *)
(* ten bisection steps of Phase 1 and the per-mille qualities of Phase 2   *)
(* are exact.  Sizes are bytes, dimensions are pixels.                     *)
(***************************************************************************)
EXTENDS Integers, Sequences, FiniteSets, TLC

(* ------------------------- arithmetic helpers ------------------------- *)

\* fixed-point scale of a quality: 1.0 = QS
QS == 1000 * 1024

\* a quality given in percent / in per-mille
Pct(p) == p * (QS \div 100)
Mil(m) == m * (QS \div 1000)

Max(a, b) == IF a >= b THEN a ELSE b
Min(a, b) == IF a <= b THEN a ELSE b

\* Math.round(n / d) for n >= 0, d > 0 (halves round up)
RoundDiv(n, d) == (2 * n + d) \div (2 * d)

(* --------------------------- program constants ------------------------ *)

ABS_MAX == 8192
Q_ITER == 10
MAX_DOWNS == 8
Q_STEPS == 5
MIN_W == 200
FINAL_MIN_W == 400
KB == 1024
MIN_TARGET_KB == 8

\* TARGET_TOLERANCE = 0.98 and the 0.95 band of the pre-check, in percent
TARGET_TOLERANCE == 98
PRECHECK_TOLERANCE == 95

(* ------------------------------ blobs --------------------------------- *)

\* a Blob produced by an encode: its byte size, what was encoded, and the
\* place of the search that made it.  NoBlob stands for null.
NoBlob == [size |-> -1, w |-> 0, h |-> 0, q |-> 0, mime |-> "none", phase |-> "none"]

MkBlob(size, w, h, q, mime, phase) ==
    [size |-> size, w |-> w, h |-> h, q |-> q, mime |-> mime, phase |-> phase]

(* ------------------------------ inputs -------------------------------- *)

\* A file: its container type, byte size, whether decodeImage can decode it,
\* its decoded dimensions, and the behaviour of the browser's encoder on its
\* pixels: bytes = (pixels/16) * (encA + encB*q) / encD, non-decreasing in
\* quality and in resolution.
NoFile == [name |-> "none", type |-> "none", size |-> 0, ok |-> FALSE,
           w |-> 0, h |-> 0, encA |-> 0, encB |-> 0, encD |-> 1]

Photo == [name |-> "photo.jpg", type |-> "image/jpeg", size |-> 3000000, ok |-> TRUE,
          w |-> 4000, h |-> 3000, encA |-> 40, encB |-> 960, encD |-> 207]

Detail == [name |-> "detail.jpg", type |-> "image/jpeg", size |-> 900000, ok |-> TRUE,
           w |-> 2000, h |-> 1500, encA |-> 600, encB |-> 400, encD |-> 232]

Icon == [name |-> "icon.jpg", type |-> "image/jpeg", size |-> 30000, ok |-> TRUE,
         w |-> 300, h |-> 200, encA |-> 900, encB |-> 100, encD |-> 500]

Strip == [name |-> "strip.png", type |-> "image/png", size |-> 20000, ok |-> TRUE,
          w |-> 3000, h |-> 1, encA |-> 500, encB |-> 500, encD |-> 50]

Corrupt == [name |-> "broken.jpg", type |-> "image/jpeg", size |-> 5000, ok |-> FALSE,
            w |-> 0, h |-> 0, encA |-> 0, encB |-> 0, encD |-> 1]

Files == {Photo, Detail, Icon, Strip, Corrupt}

\* values of the target field (0 stands for the empty field)
TargetKBs == {0, 5, 200, 210}

\* values of the quality slider and of the output select
Qualities == {Pct(30), Pct(82)}
Formats == {"jpeg", "webp", "png", "png-optimized", "auto"}

(* ------------------- runCompress: request values --------------------- *)

\* the entered target in bytes without any floor: what runCompress must not pass
TargetBytesRaw(kb) == IF kb > 0 THEN kb * KB ELSE 0

\* targetBytes of runCompress: the 8 KiB floor of a positive target
TargetBytesOf(kb) ==
    IF kb > 0 THEN Max(MIN_TARGET_KB * KB, kb * KB) ELSE 0

\* the slider's value handed on whatever the mode: what runCompress must not
\* do in target-size mode
SliderQuality(quality_, tb) == quality_

\* effectiveQuality of runCompress
EffectiveQuality(quality_, tb) == IF tb > 0 THEN Pct(88) ELSE quality_

IsPNG(f) == f.type = "image/png"

\* the mime runCompress asks for
MimeOf(format_, f, tb, webp) ==
    LET auto == IF webp THEN "image/webp" ELSE "image/jpeg"
        m == CASE format_ = "auto" -> auto
               [] format_ = "png" -> IF tb > 0 /\ tb < 80 * KB THEN auto ELSE "image/png"
               [] format_ = "webp" -> "image/webp"
               [] format_ = "jpeg" -> "image/jpeg"
               [] OTHER -> f.type
    IN IF m = "image/webp" /\ ~webp THEN "image/jpeg" ELSE m

\* the note runCompress sets while choosing the mime ("" when none)
MimeNote(format_, f, tb) ==
    CASE format_ = "auto" /\ IsPNG(f) /\ tb > 0 /\ tb < 80 * KB -> "png-converted"
      [] format_ = "png" /\ tb > 0 /\ tb < 80 * KB -> "png-converted"
      [] OTHER -> "processing"

\* maxWidth of runCompress
MaxWidthOf(tb) ==
    CASE tb > 1200 * KB -> 3400
      [] tb > 700 * KB -> 2600
      [] tb > 400 * KB -> 2000
      [] tb > 200 * KB -> 1600
      [] OTHER -> 1200

(* --------------- compressFileOptimized: pure computations ------------- *)

\* kbPerPixel = targetBytes / totalPixels compared with a threshold given in
\* thousandths (only used when targetBytes > 0)
KbppAbove(tb, px, th) == tb * 1000 > th * px
KbppBelow(tb, px, th) == tb * 1000 < th * px

estimateQualityFromKB(tb, px) ==
    CASE KbppAbove(tb, px, 150) -> Pct(90)
      [] KbppAbove(tb, px, 100) -> Pct(82)
      [] KbppAbove(tb, px, 70) -> Pct(75)
      [] KbppAbove(tb, px, 50) -> Pct(68)
      [] KbppAbove(tb, px, 35) -> Pct(60)
      [] OTHER -> Pct(50)

EstimatedQ(quality_, tb, mime_, pngOpt, px) ==
    IF tb > 0 /\ mime_ = "image/jpeg" /\ ~pngOpt /\ quality_ < Pct(85)
    THEN estimateQualityFromKB(tb, px)
    ELSE quality_

\* scaleFactor < 1 (the 0.8 pre-scale of extreme JPEG targets)
NeedsScaleFactor(tb, mime_, pngOpt, px) ==
    mime_ = "image/jpeg" /\ tb > 0 /\ ~pngOpt /\ KbppBelow(tb, px, 12)

\* the slider-only safeguard applies
NeedsSliderScale(tb, mime_, quality_, w, h) ==
    tb = 0 /\ mime_ = "image/jpeg" /\ quality_ < Pct(45) /\ Max(w, h) > 800

LongEdgeMax(tb) ==
    CASE tb > 1200 * KB -> 3200
      [] tb > 700 * KB -> 2400
      [] tb > 400 * KB -> 1800
      [] tb > 200 * KB -> 1400
      [] OTHER -> 1000

NeedsClamp(tb, mime_, w, h) ==
    mime_ = "image/jpeg" /\ Max(w, h) > LongEdgeMax(tb)

\* a smoothing that looks at the codec only: what the blur decision must not
\* be
BlurAlways(tb, mime_, pngOpt, px) ==
    IF mime_ = "image/jpeg" THEN 55 ELSE 0

\* blurPx in hundredths of a pixel
BlurPx(tb, mime_, pngOpt, px) ==
    LET b == IF mime_ = "image/jpeg" /\ ~pngOpt /\ tb > 0
             THEN CASE KbppBelow(tb, px, 15) -> 55
                    [] KbppBelow(tb, px, 22) -> 30
                    [] OTHER -> 0
             ELSE 0
    IN Min(b, 60)

\* Math.round(x * r) with r = edge / longEdge
ScaleTo(x, edge, longEdge) == RoundDiv(x * edge, longEdge)

\* srcW, srcH after the ABS_MAX clamp
ClampAbs(x, w, h) ==
    IF w > ABS_MAX \/ h > ABS_MAX THEN ScaleTo(x, ABS_MAX, Max(w, h)) ELSE x

\* initialW: srcW limited by maxWidth
InitialW(sw, mw) ==
    IF mw > 0 /\ sw > mw THEN RoundDiv(sw * mw, sw) ELSE sw

\* Math.round(w * aspect), aspect = srcH / srcW
HeightFor(w_, sw, sh) == RoundDiv(w_ * sh, sw)

\* the window of the quality search, seeded by estimatedQ
LowQ0(eq) == Max(Pct(10), eq - Pct(15))
HighQ0(eq) == Min(Pct(95), eq + Pct(15))

\* a failed attempt taken for one over the budget: what Phase 1 must not do
FailedAsOver(q_, lo, hi) == <<lo, q_>>

\* the window <<lowQ, highQ>> after a failed attempt at quality q_:
\* if (!blob) continue
FailedWindow(q_, lo, hi) == <<lo, hi>>

\* a bisection that moves towards the wrong half: what Phase 1 must not do
BisectAway(s, tb, q_, lo, hi) == IF s > tb THEN <<q_, hi>> ELSE <<lo, q_>>

\* the window <<lowQ, highQ>> after an attempt of size s at quality q_
Bisect(s, tb, q_, lo, hi) == IF s > tb THEN <<lo, q_>> ELSE <<q_, hi>>

\* an acceptance that never takes an attempt: what Phase 2 must not do
FitsNever(s, tb) == s <= tb /\ s > tb

\* a Phase-2 attempt of size s is accepted
FitsTarget(s, tb) == s <= tb

\* a ladder that keeps its width: what a round of Phase 2 must not do
SameW(cw, attempt_) == cw

\* the width of a Phase-2 round
NextDownW(cw, attempt_) ==
    RoundDiv(cw * (IF attempt_ = 0 THEN 88 ELSE 78), 100)

\* the quality of a Phase-2 attempt: 0.12 + 0.86 * (1 - qIter/5)
DownQ(qi) == Mil(120) + (Mil(860) * (Q_STEPS - qi)) \div Q_STEPS

\* finalW of the final encode
FinalW(iw) == Max(FINAL_MIN_W, RoundDiv(iw * 6, 10))

(* ------------------------------ encoder ------------------------------- *)

\* bytes the browser's encoder makes of a w x h canvas of file f's pixels.
\* A canvas without pixels has no encoding (toBlob yields null, toDataURL
\* yields "data:," whose payload is empty).
EncSize(f, w_, h_, q_, mime_, quantized) ==
    LET px == (w_ * h_) \div 16
        lossy == f.encA + (f.encB * (q_ \div 1024)) \div 1000
        weight == CASE mime_ = "image/jpeg" -> lossy
                    [] mime_ = "image/webp" -> (3 * lossy) \div 4
                    [] quantized -> 2 * lossy
                    [] OTHER -> 3 * (f.encA + f.encB)
    IN IF w_ = 0 \/ h_ = 0 THEN 0 ELSE 1 + (px * weight) \div f.encD

\* canvasToBlobWithFallback: primary is what toBlob delivered within the
\* 2500 ms (a size, or -1 for null / throw / timeout), fallback is the size of
\* the toDataURL payload (-1 when it throws).  The result is a blob size, or
\* -1 for null.
\* a choice that takes any blob of the toBlob route, empty or not: what
\* canvasToBlobWithFallback must not do
FirstBlob(primary, fallback) == IF primary >= 0 THEN primary ELSE fallback

canvasToBlobWithFallback(primary, fallback) ==
    IF primary > 0 THEN primary ELSE fallback

(* ------------------------------- state -------------------------------- *)

VARIABLES
    \* App state (useState)
    file, targetKB, quality, format, processing,
    outURL, outSize, outMime, outFilename, lastNote, originalSize,
    \* the encode attempts (width, quality) that made the output on display
    outTries,
    \* the browser: WebP support, and whether its encoders never fail
    webp, reliable,
    \* one call of canvasToBlobWithFallback seen from inside (fourth
    \* specification)
    enc,
    \* the renderScaled call in flight (fifth specification)
    rs,
    \* the request runCompress hands to compressFileOptimized
    inputBlob, optQuality, targetBytes, mime, maxWidth, pngOptimized,
    \* position of the run and locals of compressFileOptimized
    pc, workingSrc, lowQ, highQ, i, bestBlob, bestSize,
    currentW, attempt, qIter, result,
    \* observations of the run in flight: renderScaled / canvasToBlobWithFallback
    \* calls, whether an attempt of the search gave a blob, whether one was
    \* <= targetBytes, the smallest blob of Phase 1 and Phase 2, whether an
    \* attempt used another width than initialW, whether the last attempt of the
    \* search gave no blob, the blur (hundredths of a pixel) the last
    \* renderScaled call drew with, whether an attempt of the search was made
    \* at a width above initialW
    nResample, nEncode, succeeded, under, minSeen, offWidth, lastFailed,
    drawnBlur, upscaled,
    \* the encode attempts (width, quality) of the run so far, kept for the
    \* runs of a deterministic encoder
    tries,
    \* the outcome of the previous run of the same file (second specification)
    prev

appVars == <<file, targetKB, quality, format, processing,
             outURL, outSize, outMime, outFilename, outTries, lastNote,
             originalSize>>
envVars == <<webp, reliable, enc, rs>>
optVars == <<inputBlob, optQuality, targetBytes, mime, maxWidth, pngOptimized>>
srchVars == <<workingSrc, lowQ, highQ, i, bestBlob, bestSize,
              currentW, attempt, qIter, result>>
obsVars == <<nResample, nEncode, succeeded, under, minSeen, offWidth,
             lastFailed, drawnBlur, upscaled, tries>>
vars == <<appVars, envVars, optVars, pc, srchVars, obsVars, prev>>

\* no call of canvasToBlobWithFallback is under way.  canvas: the byte size
\* of the canvas's encoding; toBlob: what canvas.toBlob does ("throws",
\* "never" calls back, "calls" back with `value`: -1 for null, else a size);
\* toDataURL: "data" or "throws"; called: the flag of the callback; timer:
\* the 2500 ms timer has fired; timedOut: it fired before the callback;
\* b: what the promise resolved to (-2 while pending, -1 for null);
\* fellBack: the toDataURL route was attempted; out: the returned blob size
\* (-2 none yet, -1 for null)
EncIdle ==
    [pc |-> "idle", canvas |-> 0, toBlob |-> "never", value |-> -1,
     toDataURL |-> "data", called |-> FALSE, timer |-> FALSE,
     timedOut |-> FALSE, b |-> -2, fellBack |-> FALSE, out |-> -2]

\* no renderScaled call in flight. pc: "idle", "halving" (the Image path
\* before and inside its while loop), "done" (the canvas is drawn);
\* isBitmap, width, height: sourceObj; sw, sh: the intermediate surface;
\* halvings: iterations of the while loop; drawnFrom: the width of the surface
\* the final drawImage read (0 before it); canvasW, canvasH: the canvas
RsIdle ==
    [pc |-> "idle", isBitmap |-> FALSE, width |-> 0, height |-> 0,
     targetW |-> 0, targetH |-> 0, sw |-> 0, sh |-> 0, halvings |-> 0,
     drawnFrom |-> 0, canvasW |-> 0, canvasH |-> 0]

NoPrev == [targetBytes |-> 0, blob |-> NoBlob, tries |-> <<>>]

Init ==
    /\ file = NoFile /\ targetKB = 0 /\ quality = Pct(82) /\ format = "jpeg"
    /\ processing = FALSE
    /\ outURL = NoBlob /\ outSize = 0 /\ outMime = "" /\ outFilename = ""
    /\ outTries = <<>>
    /\ lastNote = ""
    /\ originalSize = 0
    /\ webp \in BOOLEAN /\ reliable \in BOOLEAN /\ (webp \/ reliable)
    /\ enc = EncIdle /\ rs = RsIdle
    /\ inputBlob = NoFile /\ optQuality = 0 /\ targetBytes = 0
    /\ mime = "" /\ maxWidth = 0 /\ pngOptimized = FALSE
    /\ pc = "idle"
    /\ workingSrc = [w |-> 0, h |-> 0]
    /\ lowQ = 0 /\ highQ = 0 /\ i = 0 /\ bestBlob = NoBlob /\ bestSize = 0
    /\ currentW = 0 /\ attempt = 0 /\ qIter = 0 /\ result = NoBlob
    /\ nResample = 0 /\ nEncode = 0 /\ succeeded = FALSE /\ under = FALSE
    /\ minSeen = -1
    /\ offWidth = FALSE /\ lastFailed = FALSE /\ drawnBlur = 0
    /\ upscaled = FALSE /\ tries = <<>>
    /\ prev = NoPrev

(* ------------------- derived locals of the run ------------------------ *)

totalPixels == inputBlob.w * inputBlob.h
estimatedQ == EstimatedQ(optQuality, targetBytes, mime, pngOptimized, totalPixels)
srcW == ClampAbs(workingSrc.w, workingSrc.w, workingSrc.h)
srcH == ClampAbs(workingSrc.h, workingSrc.w, workingSrc.h)
initialW == InitialW(srcW, maxWidth)
targetW == initialW
targetH == HeightFor(targetW, srcW, srcH)
\* workingSrc.blurPx once the blur strength is decided; the sources the
\* pre-scaling steps decode carry none (renderScaled: sourceObj.blurPx > 0)
blurPx == BlurPx(targetBytes, mime, pngOptimized, totalPixels)

\* outcomes of one canvasToBlobWithFallback call on a canvas whose encoding
\* has s bytes: toBlob delivers; toBlob fails and toDataURL delivers; both fail
Routes == IF reliable THEN {"primary"} ELSE {"primary", "fallback", "none"}

Encode(s, route) ==
    canvasToBlobWithFallback(IF route = "primary" THEN s ELSE -1,
                             IF route = "none" THEN -1 ELSE s)

\* the size of the blob an encode of the working source gives; the canvas is
\* colour-quantized first when quantize is set
SizeAt(w_, h_, q_, mime_, quantize, route) ==
    Encode(EncSize(inputBlob, w_, h_, q_, mime_, quantize), route)

\* if (pngOptimized && mime === "image/png"): the canvas is quantized
Quantizes == pngOptimized /\ mime = "image/png"

\* ctx.getImageData(0, 0, canvas.width, canvas.height) throws on an empty
\* rectangle
QuantizeThrows(w_, h_) == Quantizes /\ (w_ = 0 \/ h_ = 0)

\* one attempt of the search observed: size s (-1: no blob) at width w_,
\* inLoop when it is an attempt of Phase 1 or Phase 2
Observe(s, w_, q_, inLoop) ==
    /\ nResample' = nResample + 1
    /\ nEncode' = nEncode + 1
    /\ succeeded' = (succeeded \/ s >= 0)
    /\ under' = (under \/ (s >= 0 /\ s <= targetBytes))
    /\ minSeen' = IF inLoop /\ s >= 0 /\ (minSeen < 0 \/ s < minSeen)
                  THEN s ELSE minSeen
    /\ offWidth' = (offWidth \/ w_ # initialW)
    /\ lastFailed' = (s < 0)
    /\ drawnBlur' = blurPx
    /\ upscaled' = (upscaled \/ w_ > initialW)
    /\ tries' = IF reliable THEN Append(tries, <<w_, q_>>) ELSE tries

(* ----------------------------- user actions --------------------------- *)

\* handleFiles (non-HEIC file)
HandleFiles(f) ==
    /\ pc = "idle"
    /\ file' = f
    /\ outURL' = NoBlob /\ outSize' = 0 /\ outMime' = "" /\ outFilename' = ""
    /\ outTries' = <<>>
    /\ lastNote' = ""
    /\ originalSize' = f.size
    /\ prev' = NoPrev
    /\ UNCHANGED <<targetKB, quality, format, processing>>
    /\ UNCHANGED <<envVars, optVars, pc, srchVars, obsVars>>

\* the target field, the quality slider (inert while a target is set) and the
\* output select
SetTargetKB(kb) ==
    /\ pc = "idle" /\ file # NoFile /\ ~processing /\ outURL = NoBlob
    /\ kb # targetKB
    /\ targetKB' = kb
    /\ UNCHANGED <<file, quality, format, processing,
                   outURL, outSize, outMime, outFilename, outTries, lastNote,
                   originalSize>>
    /\ UNCHANGED <<envVars, optVars, pc, srchVars, obsVars, prev>>

SetQuality(q_) ==
    /\ pc = "idle" /\ file # NoFile /\ ~processing /\ outURL = NoBlob
    /\ targetKB = 0 /\ q_ # quality
    /\ quality' = q_
    /\ UNCHANGED <<file, targetKB, format, processing,
                   outURL, outSize, outMime, outFilename, outTries, lastNote,
                   originalSize>>
    /\ UNCHANGED <<envVars, optVars, pc, srchVars, obsVars, prev>>

SetFormat(fm) ==
    /\ pc = "idle" /\ file # NoFile /\ ~processing /\ outURL = NoBlob
    /\ fm # format
    /\ format' = fm
    /\ UNCHANGED <<file, targetKB, quality, processing,
                   outURL, outSize, outMime, outFilename, outTries, lastNote,
                   originalSize>>
    /\ UNCHANGED <<envVars, optVars, pc, srchVars, obsVars, prev>>

resetAll ==
    /\ pc = "idle" /\ file # NoFile
    /\ file' = NoFile /\ originalSize' = 0
    /\ outURL' = NoBlob /\ outSize' = 0 /\ outMime' = "" /\ outFilename' = ""
    /\ outTries' = <<>>
    /\ targetKB' = 0 /\ lastNote' = ""
    /\ prev' = NoPrev
    /\ UNCHANGED <<quality, format, processing>>
    /\ UNCHANGED <<envVars, optVars, pc, srchVars, obsVars>>

(* ------------------------------ runCompress --------------------------- *)

\* runCompress up to its first await: the Compress control is enabled only
\* with a file and while not processing.  The handler's closure holds the
\* file and settings of this moment.
RunCompressStart ==
    /\ pc = "idle" /\ file # NoFile /\ ~processing
    /\ processing' = TRUE
    /\ outURL' = NoBlob /\ outSize' = 0 /\ outMime' = "" /\ outFilename' = ""
    /\ outTries' = <<>>
    /\ lastNote' = "processing"
    /\ inputBlob' = file
    /\ targetBytes' = TargetBytesOf(targetKB)
    /\ optQuality' = EffectiveQuality(quality, TargetBytesOf(targetKB))
    /\ mime' = MimeOf(format, file, TargetBytesOf(targetKB), webp)
    /\ maxWidth' = MaxWidthOf(TargetBytesOf(targetKB))
    /\ pngOptimized' = (format = "png-optimized")
    /\ pc' = "setup"
    /\ workingSrc' = [w |-> 0, h |-> 0]
    /\ lowQ' = 0 /\ highQ' = 0 /\ i' = 0 /\ bestBlob' = NoBlob /\ bestSize' = 0
    /\ currentW' = 0 /\ attempt' = 0 /\ qIter' = 0 /\ result' = NoBlob
    /\ nResample' = 0 /\ nEncode' = 0 /\ succeeded' = FALSE /\ under' = FALSE
    /\ minSeen' = -1
    /\ offWidth' = FALSE /\ lastFailed' = FALSE /\ drawnBlur' = 0
    /\ upscaled' = FALSE /\ tries' = <<>>
    /\ UNCHANGED <<file, targetKB, quality, format, originalSize, envVars, prev>>

\* runCompress from its first await to the call of compressFileOptimized
RunCompressSetup ==
    /\ pc = "setup"
    /\ quality' = IF targetBytes > 0 /\ originalSize > 0
                     /\ 10 * targetBytes > 9 * originalSize
                  THEN Pct(90) ELSE quality
    /\ lastNote' = MimeNote(format, inputBlob, targetBytes)
    /\ pc' = "decode"
    /\ UNCHANGED <<file, targetKB, format, processing,
                   outURL, outSize, outMime, outFilename, outTries,
                   originalSize>>
    /\ UNCHANGED <<envVars, optVars, srchVars, obsVars, prev>>

\* the handler is over: its locals are gone
EndOfRun ==
    /\ pc' = "idle"
    /\ inputBlob' = NoFile /\ optQuality' = 0 /\ targetBytes' = 0
    /\ mime' = "" /\ maxWidth' = 0 /\ pngOptimized' = FALSE
    /\ workingSrc' = [w |-> 0, h |-> 0]
    /\ lowQ' = 0 /\ highQ' = 0 /\ i' = 0 /\ bestBlob' = NoBlob /\ bestSize' = 0
    /\ currentW' = 0 /\ attempt' = 0 /\ qIter' = 0 /\ result' = NoBlob
    /\ nResample' = 0 /\ nEncode' = 0 /\ succeeded' = FALSE /\ under' = FALSE
    /\ minSeen' = -1
    /\ offWidth' = FALSE /\ lastFailed' = FALSE /\ drawnBlur' = 0
    /\ upscaled' = FALSE /\ tries' = <<>>

\* an exception of compressFileOptimized reaches the catch of runCompress
Throw ==
    /\ lastNote' = "error"
    /\ EndOfRun
    /\ UNCHANGED <<file, targetKB, quality, format, processing,
                   outURL, outSize, outMime, outFilename, outTries,
                   originalSize>>
    /\ UNCHANGED <<envVars, prev>>

\* compressFileOptimized returns blob b after the progress note
Return(b, note) ==
    /\ result' = b
    /\ lastNote' = note
    /\ pc' = "returned"
    /\ UNCHANGED <<file, targetKB, quality, format, processing,
                   outURL, outSize, outMime, outFilename, outTries,
                   originalSize>>
    /\ UNCHANGED <<envVars, optVars, prev>>

\* the run goes on at position p with progress note
Goto(p, note) ==
    /\ pc' = p
    /\ lastNote' = note
    /\ UNCHANGED <<file, targetKB, quality, format, processing,
                   outURL, outSize, outMime, outFilename, outTries,
                   originalSize>>
    /\ UNCHANGED <<envVars, optVars, prev>>

(* ----------------- compressFileOptimized: preparation ----------------- *)

\* the step that follows the pre-scaling step `done`, for working source ws
StageAfter(done, ws) ==
    CASE done < 1 /\ NeedsSliderScale(targetBytes, mime, optQuality, ws.w, ws.h)
           -> "slider"
      [] done < 2 /\ NeedsScaleFactor(targetBytes, mime, pngOptimized, totalPixels)
           -> "scale"
      [] done < 3 /\ NeedsClamp(targetBytes, mime, ws.w, ws.h)
           -> "clamp"
      [] done < 4 /\ ~pngOptimized /\ mime = "image/jpeg" /\ targetBytes > 0
           -> "precheck"
      [] OTHER -> "prepare"

\* a decode that goes on with whatever dimensions the file claims: what
\* decodeImage must not do for an undecodable file
DecodeAnyway ==
    /\ pc = "decode"
    /\ workingSrc' = [w |-> inputBlob.w, h |-> inputBlob.h]
    /\ Goto(StageAfter(0, workingSrc'), lastNote)
    /\ UNCHANGED <<lowQ, highQ, i, bestBlob, bestSize,
                   currentW, attempt, qIter, result>>
    /\ UNCHANGED obsVars

\* const src = await decodeImage(fileBlob)
Decode ==
    /\ pc = "decode"
    /\ IF inputBlob.ok
       THEN /\ workingSrc' = [w |-> inputBlob.w, h |-> inputBlob.h]
            /\ Goto(StageAfter(0, workingSrc'), lastNote)
            /\ UNCHANGED <<lowQ, highQ, i, bestBlob, bestSize,
                           currentW, attempt, qIter, result>>
            /\ UNCHANGED obsVars
       ELSE Throw

\* workingSrc = await decodeImage(await canvasToBlobWithFallback(
\*     await renderScaled(workingSrc, w_, h_), "image/png", 1))
Prescale(done, w_, h_, route) ==
    LET s == Encode(EncSize(inputBlob, w_, h_, QS, "image/png", FALSE), route)
    IN IF s > 0
       THEN /\ workingSrc' = [w |-> w_, h |-> h_]
            /\ nResample' = nResample + 1
            /\ nEncode' = nEncode + 1
            /\ drawnBlur' = 0
            /\ tries' = IF reliable THEN Append(tries, <<w_, QS>>) ELSE tries
            /\ Goto(StageAfter(done, workingSrc'), lastNote)
            /\ UNCHANGED <<lowQ, highQ, i, bestBlob, bestSize,
                           currentW, attempt, qIter, result>>
            /\ UNCHANGED <<succeeded, under, minSeen, offWidth, lastFailed, upscaled>>
       ELSE Throw

SliderSafeguard ==
    /\ pc = "slider"
    /\ \E route \in Routes :
         Prescale(1, ScaleTo(workingSrc.w, 800, Max(workingSrc.w, workingSrc.h)),
                  ScaleTo(workingSrc.h, 800, Max(workingSrc.w, workingSrc.h)), route)

HardResize ==
    /\ pc = "scale"
    /\ \E route \in Routes :
         Prescale(2, RoundDiv(workingSrc.w * 8, 10),
                  RoundDiv(workingSrc.h * 8, 10), route)

LongEdgeClamp ==
    /\ pc = "clamp"
    /\ \E route \in Routes :
         Prescale(3, ScaleTo(workingSrc.w, LongEdgeMax(targetBytes),
                             Max(workingSrc.w, workingSrc.h)),
                  ScaleTo(workingSrc.h, LongEdgeMax(targetBytes),
                          Max(workingSrc.w, workingSrc.h)), route)

\* the early exit: one encode of the working source at estimatedQ, returned
\* when its size is within 95..100 % of the target
EarlyExit ==
    /\ pc = "precheck"
    /\ \E route \in Routes :
         LET s == SizeAt(workingSrc.w, workingSrc.h, estimatedQ, mime, FALSE, route)
             b == MkBlob(s, workingSrc.w, workingSrc.h, estimatedQ, mime, "precheck")
         IN /\ Observe(s, workingSrc.w, estimatedQ, FALSE)
            /\ IF s >= 0 /\ s <= targetBytes
                  /\ 100 * s >= PRECHECK_TOLERANCE * targetBytes
               THEN Return(b, "Finalizing")
                    /\ UNCHANGED <<workingSrc, lowQ, highQ, i, bestBlob, bestSize,
                                   currentW, attempt, qIter>>
               ELSE Goto("prepare", "Checking optimal encode")
                    /\ UNCHANGED srchVars

\* srcW .. targetH, and the locals of the quality search
Prepare ==
    /\ pc = "prepare"
    /\ IF targetBytes <= 0
       THEN /\ Goto("phase0", "Preparing image")
            /\ UNCHANGED srchVars
       ELSE /\ Goto("phase1", "Searching quality")
            /\ lowQ' = LowQ0(estimatedQ)
            /\ highQ' = HighQ0(estimatedQ)
            /\ bestBlob' = NoBlob /\ bestSize' = 0 /\ i' = 0
            /\ UNCHANGED <<workingSrc, currentW, attempt, qIter, result>>
    /\ UNCHANGED obsVars

\* no target: one renderScaled and one encode at the requested quality
Phase0 ==
    /\ pc = "phase0"
    /\ ~QuantizeThrows(targetW, targetH)
    /\ \E route \in Routes :
         LET s == SizeAt(targetW, targetH, optQuality, mime, Quantizes, route)
             b == IF s < 0 THEN NoBlob
                  ELSE MkBlob(s, targetW, targetH, optQuality, mime, "phase0")
         IN /\ Observe(s, targetW, optQuality, FALSE)
            /\ Return(b, "Encoding image")
            /\ UNCHANGED <<workingSrc, lowQ, highQ, i, bestBlob, bestSize,
                           currentW, attempt, qIter>>

(* --------------- compressFileOptimized: Phase 1 ----------------------- *)

\* a rule that keeps the largest attempt whatever the budget: what Phase 1
\* must not do
KeepsLargest(s, tb, best, bsize) == best = NoBlob \/ s > bsize

\* the candidate Phase 1 keeps after an attempt of size s: the largest seen
\* that is <= targetBytes
KeepsCandidate(s, tb, best, bsize) ==
    s <= tb /\ (best = NoBlob \/ s > bsize)

\* the early stop of Phase 1: a candidate within TARGET_TOLERANCE of the target
CloseEnough(s, tb) ==
    s <= tb /\ 100 * s >= TARGET_TOLERANCE * tb

\* one iteration of the quality bisection
Phase1Attempt ==
    /\ pc = "phase1" /\ i < Q_ITER
    /\ ~QuantizeThrows(targetW, targetH)
    /\ \E route \in Routes :
         LET q_ == (lowQ + highQ) \div 2
             s == SizeAt(targetW, targetH, q_, mime, Quantizes, route)
             b == MkBlob(s, targetW, targetH, q_, mime, "phase1")
             keep == KeepsCandidate(s, targetBytes, bestBlob, bestSize)
         IN /\ Observe(s, targetW, q_, TRUE)
            /\ IF s < 0
               THEN /\ i' = i + 1
                    /\ lowQ' = FailedWindow(q_, lowQ, highQ)[1]
                    /\ highQ' = FailedWindow(q_, lowQ, highQ)[2]
                    /\ Goto("phase1", "Trying quality")
                    /\ UNCHANGED <<workingSrc, bestBlob, bestSize,
                                   currentW, attempt, qIter, result>>
               ELSE /\ bestBlob' = IF keep THEN b ELSE bestBlob
                    /\ bestSize' = IF keep THEN s ELSE bestSize
                    /\ IF CloseEnough(s, targetBytes)
                       THEN /\ Return(b, "Finalizing")
                            /\ UNCHANGED <<workingSrc, lowQ, highQ, i,
                                           currentW, attempt, qIter>>
                       ELSE /\ lowQ' = Bisect(s, targetBytes, q_, lowQ, highQ)[1]
                            /\ highQ' = Bisect(s, targetBytes, q_, lowQ, highQ)[2]
                            /\ i' = i + 1
                            /\ Goto("phase1", "Trying quality")
                            /\ UNCHANGED <<workingSrc, currentW, attempt, qIter,
                                           result>>

\* getImageData throws while the canvas of a no-target run or of a Phase 1
\* attempt is quantized
QuantizeFails ==
    /\ pc \in {"phase0", "phase1"}
    /\ pc = "phase1" => i < Q_ITER
    /\ QuantizeThrows(targetW, targetH)
    /\ Throw

\* an end of Phase 1 that starts the ladder whatever was found: what the
\* search must not do
Phase1ExitToLadder ==
    /\ pc = "phase1" /\ i >= Q_ITER
    /\ Goto("round", "Downscaling to reach target")
    /\ currentW' = targetW /\ attempt' = 0 /\ qIter' = 0
    /\ UNCHANGED <<workingSrc, lowQ, highQ, i, bestBlob, bestSize, result>>
    /\ UNCHANGED obsVars

\* after the loop: a candidate is returned, otherwise the ladder starts
Phase1Exit ==
    /\ pc = "phase1" /\ i >= Q_ITER
    /\ IF bestBlob # NoBlob /\ 100 * bestSize <= 102 * targetBytes
       THEN /\ Return(bestBlob, "Finalizing")
            /\ UNCHANGED <<workingSrc, lowQ, highQ, i, bestBlob, bestSize,
                           currentW, attempt, qIter>>
       ELSE /\ Goto("round", "Downscaling to reach target")
            /\ currentW' = targetW /\ attempt' = 0 /\ qIter' = 0
            /\ UNCHANGED <<workingSrc, lowQ, highQ, i, bestBlob, bestSize, result>>
    /\ UNCHANGED obsVars

(* --------------- compressFileOptimized: Phase 2 ----------------------- *)

\* the best-effort candidate Phase 2 keeps after an attempt of size s > target
TracksBest(s, bsize) == s < bsize

\* the head of a round of the ladder: the next width, or the end of the ladder
Phase2Round ==
    /\ pc = "round"
    /\ IF attempt < MAX_DOWNS /\ NextDownW(currentW, attempt) >= MIN_W
       THEN /\ currentW' = NextDownW(currentW, attempt)
            /\ qIter' = 0
            /\ Goto("phase2", lastNote)
            /\ UNCHANGED <<workingSrc, lowQ, highQ, i, bestBlob, bestSize,
                           attempt, result>>
       ELSE /\ Goto("phase3", lastNote)
            /\ UNCHANGED srchVars
    /\ UNCHANGED obsVars

\* one attempt of a round, at decreasing quality
Phase2Attempt ==
    /\ pc = "phase2"
    /\ \E route \in Routes :
         LET q_ == DownQ(qIter)
             h_ == HeightFor(currentW, srcW, srcH)
             s == SizeAt(currentW, h_, q_, mime, FALSE, route)
             b == MkBlob(s, currentW, h_, q_, mime, "phase2")
             last == qIter + 1 >= Q_STEPS
         IN /\ Observe(s, currentW, q_, TRUE)
            /\ IF s >= 0 /\ FitsTarget(s, targetBytes)
               THEN /\ Return(b, "Finalizing")
                    /\ UNCHANGED <<workingSrc, lowQ, highQ, i, bestBlob, bestSize,
                                   currentW, attempt, qIter>>
               ELSE /\ bestBlob' = IF s >= 0 /\ TracksBest(s, bestSize)
                                   THEN b ELSE bestBlob
                    /\ bestSize' = IF s >= 0 /\ TracksBest(s, bestSize)
                                   THEN s ELSE bestSize
                    /\ qIter' = IF last THEN 0 ELSE qIter + 1
                    /\ attempt' = IF last THEN attempt + 1 ELSE attempt
                    /\ Goto(IF last THEN "round" ELSE "phase2", "Downscale")
                    /\ UNCHANGED <<workingSrc, lowQ, highQ, i, currentW, result>>

(* --------------- compressFileOptimized: Phase 3 ----------------------- *)

\* the best candidate when there is one, otherwise one last encode at
\* finalW and quality 0.12
Phase3 ==
    /\ pc = "phase3"
    /\ IF bestBlob # NoBlob
       THEN /\ Return(bestBlob, "Returning best possible")
            /\ UNCHANGED <<workingSrc, lowQ, highQ, i, bestBlob, bestSize,
                           currentW, attempt, qIter>>
            /\ UNCHANGED obsVars
       ELSE \E route \in Routes :
              LET w_ == FinalW(initialW)
                  h_ == HeightFor(w_, srcW, srcH)
                  s == SizeAt(w_, h_, Mil(120), mime, FALSE, route)
                  b == IF s < 0 THEN NoBlob
                       ELSE MkBlob(s, w_, h_, Mil(120), mime, "final")
              IN /\ Observe(s, w_, Mil(120), FALSE)
                 /\ Return(b, "Final encode")
                 /\ UNCHANGED <<workingSrc, lowQ, highQ, i, bestBlob, bestSize,
                                currentW, attempt, qIter>>

(* ------------------------ runCompress: the result --------------------- *)

\* handleResultBlob: publish the blob
handleResultBlob(b) ==
    /\ outURL' = b
    /\ outSize' = b.size
    /\ outMime' = b.mime
    \* the name is built from the file of the handler's closure
    /\ outFilename' = inputBlob.name
    /\ outTries' = tries

\* runCompress after compressFileOptimized returned
RunCompressResult ==
    /\ pc = "returned"
    /\ IF result = NoBlob
       THEN /\ lastNote' = "failed"
            /\ processing' = FALSE
            /\ EndOfRun
            /\ UNCHANGED <<outURL, outSize, outMime, outFilename, outTries>>
       ELSE /\ handleResultBlob(result)
            /\ lastNote' = ""
            /\ pc' = "timer"
            /\ UNCHANGED <<processing, optVars, srchVars, obsVars>>
    /\ UNCHANGED <<file, targetKB, quality, format, originalSize>>
    /\ UNCHANGED <<envVars, prev>>

\* the 500 ms timer of the success path
ProcessingTimer ==
    /\ pc = "timer"
    /\ processing' = FALSE
    /\ EndOfRun
    /\ UNCHANGED <<file, targetKB, quality, format,
                   outURL, outSize, outMime, outFilename, outTries, lastNote,
                   originalSize>>
    /\ UNCHANGED <<envVars, prev>>

(* ---------------------------- specification --------------------------- *)

User ==
    \/ \E f \in Files : HandleFiles(f)
    \/ \E kb \in TargetKBs : SetTargetKB(kb)
    \/ \E q_ \in Qualities : SetQuality(q_)
    \/ \E fm \in Formats : SetFormat(fm)
    \/ resetAll

Run ==
    \/ RunCompressStart
    \/ RunCompressSetup
    \/ Decode
    \/ SliderSafeguard
    \/ HardResize
    \/ LongEdgeClamp
    \/ EarlyExit
    \/ Prepare
    \/ Phase0
    \/ QuantizeFails
    \/ Phase1Attempt
    \/ Phase1Exit
    \/ Phase2Round
    \/ Phase2Attempt
    \/ Phase3
    \/ RunCompressResult
    \/ ProcessingTimer

Next == User \/ Run

Spec == Init /\ [][Next]_vars

(* ------------- second specification: the same file again -------------- *)

\* With the output of a run on display the user raises the target; the next
\* Compress then runs the same file and settings with the larger budget.
\* prev keeps the budget and the output of the run before.
RaiseTarget(kb) ==
    /\ pc = "idle" /\ ~processing /\ outURL # NoBlob
    /\ targetKB > 0 /\ kb > targetKB
    /\ targetKB' = kb
    /\ prev' = [targetBytes |-> TargetBytesOf(targetKB), blob |-> outURL,
                tries |-> outTries]
    /\ UNCHANGED <<file, quality, format, processing,
                   outURL, outSize, outMime, outFilename, outTries, lastNote,
                   originalSize>>
    /\ UNCHANGED <<envVars, optVars, pc, srchVars, obsVars>>

InitAgain == Init /\ reliable

NextAgain == Next \/ \E kb \in TargetKBs : RaiseTarget(kb)

SpecAgain == InitAgain /\ [][NextAgain]_vars

(* ---------- sixth specification: the same request, other slider ------- *)

\* With the output of a target run on display the user clears the target
\* field, moves the quality slider (it takes input only without a target) and
\* enters the same target again; the next Compress runs the same file, format
\* and target.  prev keeps the output and the attempts of the run before.
MoveSlider(q_) ==
    /\ pc = "idle" /\ ~processing /\ outURL # NoBlob
    /\ targetKB > 0 /\ q_ # quality
    /\ quality' = q_
    /\ prev' = [targetBytes |-> TargetBytesOf(targetKB), blob |-> outURL,
                tries |-> outTries]
    /\ UNCHANGED <<file, targetKB, format, processing,
                   outURL, outSize, outMime, outFilename, outTries, lastNote,
                   originalSize>>
    /\ UNCHANGED <<envVars, optVars, pc, srchVars, obsVars>>

InitSlider == Init /\ reliable

NextSlider == Next \/ \E q_ \in Qualities : MoveSlider(q_)

SpecSlider == InitSlider /\ [][NextSlider]_vars

(* --------- third specification: the input changes during a run -------- *)

\* Nothing disables the file input, the drop zone or the remove button while
\* compressFileOptimized is at work: handleFiles and resetAll can run between
\* two steps of the run, which goes on with the request of its closure.
HandleFilesInFlight(f) ==
    /\ pc \notin {"idle", "setup"}
    /\ f # file
    /\ file' = f
    /\ outURL' = NoBlob /\ outSize' = 0 /\ outMime' = "" /\ outFilename' = ""
    /\ outTries' = <<>>
    /\ lastNote' = ""
    /\ originalSize' = f.size
    /\ UNCHANGED <<targetKB, quality, format, processing>>
    /\ UNCHANGED <<envVars, optVars, pc, srchVars, obsVars, prev>>

\* a reset that also takes the busy flag down: what resetAll must not do
\* while a run is in flight
ResetAllClearsProcessing ==
    /\ pc \notin {"idle", "setup"}
    /\ file # NoFile
    /\ file' = NoFile /\ originalSize' = 0
    /\ outURL' = NoBlob /\ outSize' = 0 /\ outMime' = "" /\ outFilename' = ""
    /\ outTries' = <<>>
    /\ targetKB' = 0 /\ lastNote' = ""
    /\ processing' = FALSE
    /\ UNCHANGED <<quality, format>>
    /\ UNCHANGED <<envVars, optVars, pc, srchVars, obsVars, prev>>

\* resetAll between two steps of a run
ResetAllInFlight ==
    /\ pc \notin {"idle", "setup"}
    /\ file # NoFile
    /\ file' = NoFile /\ originalSize' = 0
    /\ outURL' = NoBlob /\ outSize' = 0 /\ outMime' = "" /\ outFilename' = ""
    /\ outTries' = <<>>
    /\ targetKB' = 0 /\ lastNote' = ""
    /\ UNCHANGED <<quality, format, processing>>
    /\ UNCHANGED <<envVars, optVars, pc, srchVars, obsVars, prev>>

InitInFlight == Init /\ reliable

NextInFlight ==
    \/ Next
    \/ \E f \in Files : HandleFilesInFlight(f)
    \/ ResetAllInFlight

SpecInFlight == InitInFlight /\ [][NextInFlight]_vars

(* ------ fourth specification: canvasToBlobWithFallback from inside ----- *)

\* encodings of the canvases handed to canvasToBlobWithFallback (0: a canvas
\* without pixels)
EncCanvases == {0, 1, 7411, 200182}

\* the other variables of the program stay as they are
EncFrame == UNCHANGED <<appVars, webp, reliable, rs, optVars, pc, srchVars,
                        obsVars, prev>>

\* the executor of the promise: canvas.toBlob is called (it may throw, which
\* resolves the promise with null) and the 2500 ms timer is set
EncCall(canvas, kind, v, fb) ==
    /\ enc.pc = "idle"
    /\ enc' = [EncIdle EXCEPT !.pc = "pending", !.canvas = canvas,
                              !.toBlob = kind, !.value = v, !.toDataURL = fb,
                              !.b = IF kind = "throws" THEN -1 ELSE -2]
    /\ EncFrame

\* a promise that takes the value of its latest resolve call: what the
\* promise of canvasToBlobWithFallback must not do
ResolveAgain(b, v) == v

\* resolve(v) on the promise whose state is b: only the first call settles it
Resolve(b, v) == IF b = -2 THEN v ELSE b

\* the callback of canvas.toBlob: if (!called) { called = true; resolve(blob) }
ToBlobCallback ==
    /\ enc.pc # "idle" /\ enc.toBlob = "calls" /\ ~enc.called
    /\ enc' = [enc EXCEPT !.called = TRUE,
                          !.b = Resolve(enc.b, enc.value)]
    /\ EncFrame

\* the timer: if (!called) resolve(null)
ToBlobTimer ==
    /\ enc.pc # "idle" /\ ~enc.timer
    /\ enc' = [enc EXCEPT !.timer = TRUE,
                          !.timedOut = ~enc.called,
                          !.b = IF ~enc.called THEN Resolve(enc.b, -1)
                                ELSE enc.b]
    /\ EncFrame

\* after the await: b is returned when it is a non-empty blob, otherwise the
\* toDataURL route is taken; it gives the canvas's encoding or throws
EncSettle ==
    /\ enc.pc = "pending" /\ enc.b # -2
    /\ enc' = [enc EXCEPT
                 !.pc = "done",
                 !.fellBack = ~(enc.b > 0),
                 !.out = canvasToBlobWithFallback(
                             enc.b,
                             IF enc.toDataURL = "data" THEN enc.canvas ELSE -1)]
    /\ EncFrame

\* the caller has the result
EncReturn ==
    /\ enc.pc = "done"
    /\ enc' = EncIdle
    /\ EncFrame

InitEncoder == Init /\ reliable /\ webp

NextEncoder ==
    \/ \E canvas \in EncCanvases, kind \in {"throws", "never", "calls"},
          v \in {-1, 0, 1}, fb \in {"data", "throws"} :
            EncCall(canvas, kind, IF v = 1 THEN canvas ELSE v, fb)
    \/ ToBlobCallback
    \/ ToBlobTimer
    \/ EncSettle
    \/ EncReturn

SpecEncoder == InitEncoder /\ [][NextEncoder]_vars

(* ------------- fifth specification: inside renderScaled --------------- *)

\* decoded sources (width, height) and requested sizes of the calls
RsSources == {<<4000, 3000>>, <<2000, 1500>>, <<300, 200>>, <<3000, 1>>,
              <<1, 3000>>, <<8191, 5>>}
RsTargets == {<<1000, 750>>, <<200, 150>>, <<400, 267>>, <<1999, 1499>>,
              <<2000, 1500>>, <<150, 100>>}

\* the size the long-edge clamp asks renderScaled for: Math.round(width * r),
\* Math.round(height * r) with r = LONG_EDGE_MAX / longEdge
ClampSize(s, tb) ==
    <<ScaleTo(s[1], LongEdgeMax(tb), Max(s[1], s[2])),
      ScaleTo(s[2], LongEdgeMax(tb), Max(s[1], s[2]))>>

\* the sizes asked for source s: the sizes above, and those of the long-edge
\* clamp of a JPEG run
RsTargetsOf(s) ==
    RsTargets \cup {ClampSize(s, TargetBytesOf(kb)) :
                      kb \in {k \in TargetKBs :
                                NeedsClamp(TargetBytesOf(k), "image/jpeg",
                                           s[1], s[2])}}

\* the while loop is followed for this many iterations
MaxHalvings == 16

RsFrame == UNCHANGED <<appVars, webp, reliable, enc, optVars, pc, srchVars,
                       obsVars, prev>>

\* renderScaled(sourceObj, targetW, targetH) up to its first await: the
\* canvas is created; a bitmap source is drawn onto it at once, an Image
\* source is first copied to tmpCanvas
RenderCall(s, isBitmap, t) ==
    /\ rs.pc = "idle"
    /\ rs' = IF isBitmap
             THEN [RsIdle EXCEPT !.pc = "done", !.isBitmap = TRUE,
                                 !.width = s[1], !.height = s[2],
                                 !.targetW = t[1], !.targetH = t[2],
                                 !.canvasW = t[1], !.canvasH = t[2],
                                 !.drawnFrom = s[1]]
             ELSE [RsIdle EXCEPT !.pc = "halving",
                                 !.width = s[1], !.height = s[2],
                                 !.targetW = t[1], !.targetH = t[2],
                                 !.canvasW = t[1], !.canvasH = t[2],
                                 !.sw = s[1], !.sh = s[2]]
    /\ RsFrame

\* one iteration of while (sw / 2 > targetW)
HalveStep ==
    /\ rs.pc = "halving"
    /\ rs.sw > 2 * rs.targetW
    /\ rs.halvings < MaxHalvings
    /\ rs' = [rs EXCEPT !.sw = RoundDiv(rs.sw, 2), !.sh = RoundDiv(rs.sh, 2),
                        !.halvings = rs.halvings + 1]
    /\ RsFrame

\* the loop is left: ctx.drawImage(tmpCanvas, 0, 0, sw, sh, 0, 0, targetW,
\* targetH)
FinalBlit ==
    /\ rs.pc = "halving"
    /\ ~(rs.sw > 2 * rs.targetW)
    /\ rs' = [rs EXCEPT !.pc = "done", !.drawnFrom = rs.sw]
    /\ RsFrame

\* return canvas
RenderReturn ==
    /\ rs.pc = "done"
    /\ rs' = RsIdle
    /\ RsFrame

InitRender == Init /\ reliable /\ webp

NextRender ==
    \/ \E s \in RsSources, isBitmap \in BOOLEAN :
          \E t \in RsTargetsOf(s) : RenderCall(s, isBitmap, t)
    \/ HalveStep
    \/ FinalBlit
    \/ RenderReturn

SpecRender == InitRender /\ [][NextRender]_vars

(* ------------------------------- claims ------------------------------- *)

\* compressFileOptimized has returned with a target budget
ReturnedWithTarget == pc = "returned" /\ targetBytes > 0

\* C1: when some attempt of a run with a target budget (pre-check, Phase 1,
\* Phase 2) gave a buffer of size <= targetBytes, the buffer the run returns
\* has size <= targetBytes.  (A run that returns no buffer at all is not held
\* against the claim here.)
C1_UnderBudgetAttemptIsReturned ==
    (ReturnedWithTarget /\ under /\ result # NoBlob)
        => result.size <= targetBytes

\* C2: when no attempt reached the budget but some attempt of Phase 1 or
\* Phase 2 gave a buffer, the run returns the smallest buffer of Phase 1 and
\* Phase 2 (the tracked bestBlob), not the buffer of a further encode.
C2_ReturnsSmallestAttempt ==
    (ReturnedWithTarget /\ ~under /\ minSeen >= 0)
        => /\ result.phase \in {"phase1", "phase2"}
           /\ result.size = minSeen

\* C3: when runCompress has delivered a buffer larger than the target budget,
\* the status note left by the run flags it as best effort: it differs from
\* the empty note with which a run that reached its target ends.
C3_BestEffortIsFlagged ==
    (pc = "timer" /\ targetBytes > 0 /\ outSize > targetBytes)
        => lastNote # ""

\* C4: when any attempt of a run with a target budget gave a buffer
\* (pre-check, Phase 1, Phase 2 or final encode), the run returns a buffer,
\* so that runCompress does not report "Compression failed".
C4_SuccessfulAttemptGivesResult ==
    (ReturnedWithTarget /\ succeeded) => result # NoBlob

\* C5: a published output has a strictly positive byte size, and a zero-byte
\* buffer is never recorded as the candidate of the search.
C5_NoEmptyResult ==
    /\ outURL # NoBlob => outSize > 0
    /\ bestBlob # NoBlob => bestBlob.size > 0

\* C6: a run without target budget makes exactly one renderScaled call and
\* exactly one canvasToBlobWithFallback call before it returns.
C6_OneResampleOneEncode ==
    (pc = "returned" /\ targetBytes = 0)
        => nResample = 1 /\ nEncode = 1

\* the decoded source dimensions reduced by the 8192 px ceiling and by the
\* max-width hint only
HintedW == InitialW(ClampAbs(inputBlob.w, inputBlob.w, inputBlob.h), maxWidth)
HintedH == HeightFor(HintedW, ClampAbs(inputBlob.w, inputBlob.w, inputBlob.h),
                     ClampAbs(inputBlob.h, inputBlob.w, inputBlob.h))

\* C7: the output of a run without target budget has the decoded source
\* dimensions, reduced only by the 8192 px ceiling and the max-width hint.
C7_DimensionsKept ==
    (pc = "returned" /\ targetBytes = 0 /\ result # NoBlob)
        => result.w = HintedW /\ result.h = HintedH

\* the quality range of the encoder the interface offers, in percent
MinQ == 5
MaxQ == 98
QualityRange == {Pct(p) : p \in MinQ..MaxQ}

\* the size the encoder gives the working source at the Phase-1 resolution
Phase1Size(q_) == EncSize(inputBlob, targetW, targetH, q_, mime, Quantizes)

\* the size the encoder gives the working source at width w_ in Phase 2
LadderSize(w_, q_) ==
    EncSize(inputBlob, w_, HeightFor(w_, srcW, srcH), q_, mime, FALSE)

\* some quality of the encoder reaches the budget at the Phase-1 resolution
AchievableAtPhase1 == \E q_ \in QualityRange : Phase1Size(q_) <= targetBytes

\* some quality reaches the budget at some smaller width of at least 200 px
ReachableBelow ==
    \E w_ \in MIN_W..(targetW - 1) :
        \E q_ \in QualityRange : LadderSize(w_, q_) <= targetBytes

\* the quality of attempt k of Phase 1 when every attempt before it was over
\* the budget: the lowest quality Phase 1 can try
RECURSIVE LowestTried(_, _, _)
LowestTried(lo, hi, k) ==
    IF k <= 1 THEN (lo + hi) \div 2
    ELSE LowestTried(lo, (lo + hi) \div 2, k - 1)

\* the lowest quality of the Phase-1 window reaches the budget
WindowReaches ==
    Phase1Size(LowestTried(LowQ0(estimatedQ), HighQ0(estimatedQ), Q_ITER))
        <= targetBytes

\* the width of round k of the ladder (k = 0 is the first round)
RECURSIVE LadderW(_)
LadderW(k) ==
    IF k = 0 THEN NextDownW(targetW, 0) ELSE NextDownW(LadderW(k - 1), k)

\* one of the (width, quality) attempts of the ladder reaches the budget
LadderReaches ==
    \E k \in 0..(MAX_DOWNS - 1) : \E qi \in 0..(Q_STEPS - 1) :
        /\ LadderW(k) >= MIN_W
        /\ LadderSize(LadderW(k), DownQ(qi)) <= targetBytes

\* C8 (as stated): with a reliable encoder, when some quality reaches the
\* budget at the Phase-1 resolution, the returned buffer is within the budget
\* and no attempt was made at another width.
C8_AchievableStaysInPhase1 ==
    (ReturnedWithTarget /\ reliable /\ AchievableAtPhase1)
        => /\ result # NoBlob /\ result.size <= targetBytes
           /\ ~offWidth

\* C8 (amended): with a reliable encoder, when the lowest quality of the
\* Phase-1 window, lowQ + (highQ - lowQ) / 2^Q_ITER, reaches the budget at the
\* Phase-1 resolution, the returned buffer is within the budget, it comes from
\* the pre-check or Phase 1, and no attempt was made at another width.
C8_WindowStaysInPhase1 ==
    (ReturnedWithTarget /\ reliable /\ WindowReaches)
        => /\ result # NoBlob /\ result.size <= targetBytes
           /\ result.phase \in {"precheck", "phase1"}
           /\ ~offWidth

\* a run whose first Phase-1 attempts were over the budget and that found a
\* buffer within the budget further down the window
C8_Witness ==
    /\ ReturnedWithTarget /\ reliable /\ WindowReaches
    /\ result.phase = "phase1" /\ result.size > 0
    /\ Phase1Size((LowQ0(estimatedQ) + HighQ0(estimatedQ)) \div 2) > targetBytes

\* C9 (as stated): with a reliable encoder, when no quality reaches the budget
\* at the Phase-1 resolution but some quality does at some smaller width of at
\* least 200 px, the returned buffer is within the budget and narrower than
\* the Phase-1 width.
C9_ReachableByDownscaling ==
    (ReturnedWithTarget /\ reliable /\ ~AchievableAtPhase1 /\ ReachableBelow)
        => /\ result # NoBlob /\ result.size <= targetBytes
           /\ result.w < targetW

\* C9 (amended): with a reliable encoder, when the Phase-1 window does not
\* reach the budget but one of the ladder's attempts (widths 0.88, 0.88*0.78,
\* ... of the Phase-1 width down to 200 px, at most MAX_DOWNS rounds, qualities
\* 0.98, 0.808, 0.636, 0.464, 0.292) does, the returned buffer is within the
\* budget and narrower than the Phase-1 width.
C9_LadderReaches ==
    (ReturnedWithTarget /\ reliable /\ ~WindowReaches /\ LadderReaches)
        => /\ result # NoBlob /\ result.size <= targetBytes
           /\ result.w < targetW

\* a run that Phase 2 ended with a buffer within the budget, not in its
\* first attempt
C9_Witness ==
    /\ ReturnedWithTarget /\ reliable /\ ~WindowReaches /\ LadderReaches
    /\ result.phase = "phase2" /\ result.size > 0
    /\ (attempt > 0 \/ qIter > 0)

\* C10: of two runs of the same file and settings with budgets T1 < T2 and a
\* reliable encoder, the result for T2 has a quality and a width at least
\* those of the result for T1.
C10_MonotoneInBudget ==
    (/\ pc = "returned" /\ result # NoBlob
     /\ prev.blob # NoBlob
     /\ prev.targetBytes > 0 /\ prev.targetBytes < targetBytes)
        => /\ result.q >= prev.blob.q
           /\ result.w >= prev.blob.w

\* C11: the budget runCompress passes to the compressor is 8192 for an entered
\* target below 8, targetKB * 1024 for a target of 8 or more, 0 without a
\* target, and never strictly between 0 and 8192.
C11_TargetFloor ==
    pc # "idle"
        => /\ targetKB = 0 => targetBytes = 0
           /\ (0 < targetKB /\ targetKB < 8) => targetBytes = 8192
           /\ targetKB >= 8 => targetBytes = targetKB * 1024
           /\ ~(0 < targetBytes /\ targetBytes < 8192)

\* a run in flight for an entered target below 8
C11_Witness ==
    pc = "phase1" /\ 0 < targetKB /\ targetKB < 8 /\ targetBytes = 8192

\* C12: when the input does not decode, the run has made and makes no
\* resample or encode attempt and returns nothing: its next step ends the run
\* with the error note and with no output published.
C12_DecodeErrorEndsRun ==
    [][(pc = "decode" /\ ~inputBlob.ok)
          => /\ nResample = 0 /\ nEncode = 0 /\ result = NoBlob
             /\ pc' = "idle" /\ lastNote' = "error"
             /\ result' = NoBlob /\ nResample' = 0 /\ nEncode' = 0
             /\ outURL' = NoBlob /\ outSize' = 0]_vars

\* the run of an undecodable file has ended with the error note
C12_Witness ==
    /\ file = Corrupt /\ pc = "idle" /\ lastNote = "error"
    /\ outURL = NoBlob /\ outSize = 0

\* no encode of the run in flight has given a blob: no attempt of the search,
\* and no re-encode of a pre-scaling step (the working source is still the
\* decoded input)
NoEncodeSucceeded ==
    /\ ~succeeded
    /\ workingSrc = [w |-> inputBlob.w, h |-> inputBlob.h]

\* C13: when a run ends after encode attempts that all failed (the encoder
\* is one whose routes can both fail), runCompress leaves a failure note,
\* publishes no output and is no longer processing.
C13_TotalFailureIsReported ==
    [][(/\ pc \in {"slider", "scale", "clamp", "returned"}
        /\ ~reliable /\ NoEncodeSucceeded
        /\ pc' = "idle")
          => /\ lastNote' \in {"failed", "error"}
             /\ outURL' = NoBlob /\ outSize' = 0
             /\ ~processing']_vars

\* C14: a published output belongs to the currently selected file: once the
\* input has changed during a run, the result of that run is not published.
C14_OutputBelongsToFile ==
    outURL # NoBlob => (file # NoFile /\ outFilename = file.name)

\* C15: no step of a run changes the request settings: while a run is in
\* flight (the user edits only between runs), quality, targetKB and format
\* keep their values.
C15_RunLeavesRequestAlone ==
    [][pc # "idle"
          => /\ quality' = quality
             /\ targetKB' = targetKB
             /\ format' = format]_vars

\* C16: the ladder is at work only after all Q_ITER iterations of Phase 1
\* ended without an attempt <= targetBytes, and once compressFileOptimized has
\* returned a buffer no further resample or encode is made.
C16_PhaseOrder ==
    /\ [](pc \in {"round", "phase2", "phase3"}
            => /\ targetBytes > 0 /\ i = Q_ITER
               /\ (minSeen < 0 \/ minSeen > targetBytes))
    /\ [][(pc \in {"returned", "timer"})
            => (nEncode' <= nEncode /\ nResample' <= nResample)]_vars

\* a run that went through all of Phase 1 and found its result on the ladder
C16_Witness ==
    /\ pc = "returned" /\ result.phase = "phase2"
    /\ i = Q_ITER /\ result.size <= targetBytes

\* the quality of the next Phase-1 attempt
Mid == (lowQ + highQ) \div 2

\* C17: in Phase 1 lowQ <= highQ and the candidate is within the budget; an
\* attempt at mid = (lowQ + highQ) / 2 of size s either fails and changes
\* nothing, or s > targetBytes and highQ becomes mid with the candidate
\* unchanged, or s <= targetBytes, bestSize becomes the larger of bestSize and
\* s, the candidate is replaced exactly when s is the largest size within the
\* budget so far, and lowQ becomes mid (or the attempt is returned).
C17_BisectionRule ==
    /\ [](pc = "phase1"
            => /\ lowQ <= highQ
               /\ bestBlob # NoBlob
                    => (bestBlob.size = bestSize /\ bestSize <= targetBytes))
    /\ [][(pc = "phase1" /\ i < Q_ITER /\ pc' # "idle")
            => \/ /\ ~reliable
                  /\ UNCHANGED <<lowQ, highQ, bestBlob, bestSize>>
               \/ /\ Phase1Size(Mid) > targetBytes
                  /\ highQ' = Mid /\ lowQ' = lowQ
                  /\ UNCHANGED <<bestBlob, bestSize>>
               \/ /\ Phase1Size(Mid) <= targetBytes
                  /\ bestSize' = Max(bestSize, Phase1Size(Mid))
                  /\ (bestBlob' # bestBlob)
                       = (bestBlob = NoBlob \/ Phase1Size(Mid) > bestSize)
                  /\ \/ lowQ' = Mid /\ highQ' = highQ
                     \/ pc' = "returned" /\ result'.size = Phase1Size(Mid)]_vars

\* Phase 1 after attempts over and within the budget, with a candidate
C17_Witness ==
    /\ pc = "phase1" /\ bestBlob # NoBlob /\ bestSize > 0
    /\ lowQ > LowQ0(estimatedQ) /\ highQ < HighQ0(estimatedQ)

\* C18: a Phase-1 or Phase-2 attempt that gives no blob leaves lowQ, highQ,
\* bestBlob and bestSize as they were, and the loop goes on with its next
\* iteration: the failure has used up one iteration.
C18_FailureIsNoDataPoint ==
    [][(pc \in {"phase1", "phase2"} /\ nEncode' = nEncode + 1 /\ lastFailed')
          => /\ UNCHANGED <<lowQ, highQ, bestBlob, bestSize>>
             /\ pc = "phase1" => (pc' = "phase1" /\ i' = i + 1)
             /\ pc = "phase2"
                  => \/ pc' = "phase2" /\ qIter' = qIter + 1
                        /\ attempt' = attempt
                     \/ pc' = "round" /\ qIter + 1 = Q_STEPS
                        /\ attempt' = attempt + 1]_vars

\* Phase 1 after a failed attempt that followed attempts over and within the
\* budget
C18_Witness ==
    /\ pc = "phase1" /\ lastFailed /\ i < Q_ITER
    /\ bestBlob # NoBlob /\ bestSize > 0
    /\ lowQ > LowQ0(estimatedQ) /\ highQ < HighQ0(estimatedQ)

\* C19: one failing encode does not by itself end the run with an error: a
\* pre-scaling step of a run of which an earlier encode gave a blob does not
\* end the run with the error note.
C19_PrescaleFailureAbsorbed ==
    [][(pc \in {"slider", "scale", "clamp"} /\ nEncode > 0)
          => lastNote' # "error"]_vars

\* C20: at the return of canvasToBlobWithFallback: the toDataURL route was
\* attempted exactly when toBlob threw, gave null or an empty blob, or had
\* not called back when the 2500 ms timer fired; null is returned only after
\* the toDataURL route failed too; when the toDataURL route was attempted its
\* outcome is what is returned; and a non-empty blob delivered in time is
\* returned as it is, without the toDataURL route.
C20_FallbackRule ==
    enc.pc = "done"
        => /\ enc.fellBack
                = \/ enc.toBlob = "throws"
                  \/ enc.timedOut
                  \/ (enc.called /\ ~enc.timedOut /\ enc.value <= 0)
           /\ enc.out = -1 => (enc.fellBack /\ enc.toDataURL = "throws")
           /\ enc.fellBack
                => enc.out = (IF enc.toDataURL = "data" THEN enc.canvas ELSE -1)
           /\ (enc.called /\ ~enc.timedOut /\ enc.value > 0)
                => (enc.out = enc.value /\ ~enc.fellBack)

\* the callback came after the timer and the toDataURL route gave the blob
C20_Witness ==
    /\ enc.pc = "done" /\ enc.timedOut /\ enc.called /\ enc.value > 0
    /\ enc.fellBack /\ enc.out = enc.canvas /\ enc.out > 0

\* C21: blur is never applied when no target budget was given: in a run
\* with targetBytes = 0 every renderScaled call draws with blurPx = 0; the
\* blur any call draws with is within [0, 0.6] px and is non-zero only in a
\* JPEG target run that is not "png-optimized"
C21_BlurOnlyForJpegTarget ==
    /\ drawnBlur \in 0..60
    /\ (targetBytes = 0 => drawnBlur = 0)
    /\ (drawnBlur > 0 =>
          mime = "image/jpeg" /\ ~pngOptimized /\ targetBytes > 0)

\* a JPEG run with no target that has pre-scaled and encoded
C21_Witness ==
    /\ pc = "returned" /\ targetBytes = 0 /\ mime = "image/jpeg"
    /\ nResample >= 2 /\ drawnBlur = 0

\* C22: progressive halving: every renderScaled call whose source is more
\* than twice as wide as the target, for a bitmap source and for an Image
\* source, halves an intermediate surface until its width is within 2x of
\* the target and then draws once to the requested dimensions; the
\* intermediate width never drops below the target width
C22_ProgressiveHalving ==
    rs.width > 2 * rs.targetW =>
      /\ (rs.pc = "halving" => rs.sw >= rs.targetW)
      /\ (rs.pc = "done" =>
            /\ rs.halvings >= 1
            /\ rs.drawnFrom >= rs.targetW /\ rs.drawnFrom <= 2 * rs.targetW
            /\ rs.canvasW = rs.targetW /\ rs.canvasH = rs.targetH)

\* C23: the shape of the Phase-2 ladder: the working width strictly
\* decreases from round to round (round(0.88 w) in the first round,
\* round(0.78 w) later), every attempt is made at a width >= 200 px, there
\* are at most 8 rounds of at most 5 attempts at strictly decreasing quality,
\* the height is round(width * aspect) for the aspect srcH / srcW computed
\* before Phase 1, and a round ends at its first attempt of size <=
\* targetBytes, which is returned
C23_LadderShape ==
    /\ [](pc = "phase2" =>
            /\ currentW >= MIN_W /\ currentW < initialW
            /\ attempt < MAX_DOWNS /\ qIter < Q_STEPS
            /\ (minSeen < 0 \/ minSeen > targetBytes))
    /\ [][(pc = "round" /\ pc' = "phase2") =>
            /\ currentW' < currentW /\ qIter' = 0 /\ attempt' = attempt
            /\ 100 * currentW' - (IF attempt = 0 THEN 88 ELSE 78) * currentW
                 \in -49..50]_vars
    /\ [][(pc = "phase2" /\ pc' = "phase2") =>
            /\ qIter' = qIter + 1 /\ DownQ(qIter') < DownQ(qIter)
            /\ currentW' = currentW /\ attempt' = attempt
            /\ (minSeen' < 0 \/ minSeen' > targetBytes)]_vars
    /\ [][(pc = "phase2" /\ pc' = "round") =>
            /\ qIter = Q_STEPS - 1 /\ attempt' = attempt + 1
            /\ currentW' = currentW
            /\ (minSeen' < 0 \/ minSeen' > targetBytes)]_vars
    /\ [][(pc = "phase2" /\ pc' \notin {"phase2", "round"}) =>
            /\ pc' = "returned" /\ ~lastFailed'
            /\ result'.size <= targetBytes /\ result'.size = minSeen'
            /\ result'.w = currentW /\ result'.q = DownQ(qIter)
            /\ 2 * srcW * result'.h - 2 * currentW * srcH > -srcW
            /\ 2 * srcW * result'.h - 2 * currentW * srcH <= srcW]_vars

\* the fifth attempt of the eighth round
C23_Witness == pc = "phase2" /\ attempt = MAX_DOWNS - 1 /\ qIter = Q_STEPS - 1

\* C24: every run terminates, the halving loop of each renderScaled call
\* included: each iteration of while (sw / 2 > targetW) leaves a narrower
\* intermediate surface, so the loop is left after a bounded number of
\* iterations
C24_HalvingLoopEnds ==
    rs.pc = "halving" /\ rs.sw > 2 * rs.targetW => RoundDiv(rs.sw, 2) < rs.sw

\* C25: at most one compression search is active at a time: whatever files
\* are selected or removed meanwhile, processing is true from the start of a
\* run until after its result has been handled, so the Compress control
\* (enabled only with a file and while not processing) starts a run only
\* when no run is in flight
C25_OneRunAtATime ==
    /\ [](pc # "idle" => processing)
    /\ [][(pc = "idle" /\ pc' # "idle") =>
            ~processing /\ file # NoFile /\ processing']_vars

\* a run in flight after the user removed its file and selected another one:
\* the control is still disabled
C25_Witness ==
    /\ pc \in {"phase1", "phase2", "timer"} /\ processing
    /\ file # NoFile /\ file # inputBlob /\ targetKB = 0 /\ targetBytes > 0

\* C26: every started runCompress returns the UI to the idle state: on every
\* exit path processing becomes false again. When the handler is over
\* (nothing of the run is pending: no await, no timer) processing is false,
\* so that the Compress control can start a further run
C26_RunEndsIdle == pc = "idle" => ~processing

\* C27: the compressor never upscales: every encode attempt of a run, the
\* final encode after Phase 2 included, is made at a width <= initialW,
\* which is <= the width of the decoded source and <= maxWidth when a
\* maxWidth is given
C27_NeverUpscales ==
    /\ ~upscaled
    /\ initialW <= inputBlob.w
    /\ (maxWidth > 0 => initialW <= maxWidth)

\* C28: the outcome of the primary encode in canvasToBlobWithFallback is
\* decided exactly once, by whichever of the toBlob callback and the 2500 ms
\* timer happens first: what the promise resolved to and what the function
\* returns never change afterwards; when the timer fired first the outcome
\* is null whatever a late callback brings, and when the callback came first
\* the outcome is its blob whatever the timer does later
C28_DecidedOnce ==
    /\ [][(enc.b # -2 /\ enc'.pc # "idle") => enc'.b = enc.b]_vars
    /\ [][(enc.out # -2 /\ enc'.pc # "idle") => enc'.out = enc.out]_vars
    /\ [](enc.timedOut => enc.b = -1)
    /\ [](enc.called /\ ~enc.timedOut => enc.b = enc.value)
    /\ [](enc.pc = "done" /\ enc.timedOut =>
            enc.fellBack
            /\ enc.out = (IF enc.toDataURL = "data" THEN enc.canvas ELSE -1))

\* the callback brought a blob after the timer had fired and the fallback's
\* blob had been chosen
C28_Witness ==
    /\ enc.pc = "done" /\ enc.timedOut /\ enc.called /\ enc.timer
    /\ enc.value > 0 /\ enc.b = -1 /\ enc.fellBack /\ enc.out = enc.canvas

\* C29: in target-size mode the quality slider does not influence the
\* result: with a deterministic encoder, the run of the same file, format
\* and target after the slider was moved makes the same sequence of encode
\* attempts (widths and qualities) and returns the same blob as the run
\* before
C29_SliderHasNoInfluence ==
    (pc = "returned" /\ prev.blob # NoBlob /\ prev.targetBytes > 0)
        => /\ targetBytes = prev.targetBytes
           /\ tries = prev.tries
           /\ result = prev.blob

\* the second of two WebP target runs that searched in Phase 1
C29_Witness ==
    /\ pc = "returned" /\ prev.blob # NoBlob /\ prev.targetBytes > 0
    /\ mime = "image/webp" /\ Len(tries) >= 3 /\ result.phase = "phase1"

\* C30: the codec requested from the compressor is the one the selected
\* output format implies, whatever the type of the input file: "jpeg" gives
\* image/jpeg; "webp" and "auto" give image/webp when WebP is supported and
\* image/jpeg otherwise; "png" and "png-optimized" give image/png, except
\* that "png" with a target below 80 KiB is switched to WebP/JPEG
C30_CodecFollowsFormat ==
    pc # "idle" =>
      mime = CASE format = "jpeg" -> "image/jpeg"
               [] format \in {"webp", "auto"} ->
                    IF webp THEN "image/webp" ELSE "image/jpeg"
               [] format = "png" /\ targetBytes > 0 /\ targetBytes < 80 * KB ->
                    IF webp THEN "image/webp" ELSE "image/jpeg"
               [] OTHER -> "image/png"

====
